---- MODULE Spec2Model ----
(***************************************************************************)
(* Model of the tauri-plugin-ios-push capability routing core:             *)
(* Bootstrap (setup), the Extension Accessor (ios_push), the two commands, *)
(* the desktop stub backend and the mobile backend that round-trips to the *)
(* native bridge.                                                          *)
(***************************************************************************)
EXTENDS Integers, Sequences, FiniteSets, TLC

\* ---------------------------------------------------------------- bounds
NumCallers == 2
MaxCalls == 3

Callers == 1..NumCallers

\* ------------------------------------------------------------ value sets
Targets == {"desktop", "ios", "android"}
Commands == {"request_push_permission", "get_push_token"}
PermissionStates == {"Granted", "Denied", "NotDetermined"}
Tokens == {"abc123", "tok2"}
NoVal == "<none>"
NoErr == [kind |-> "none", cause |-> "none"]
NoHandle == [id |-> 0, backend |-> "none"]

IsMobile(t) == t \in {"ios", "android"}

\* crate::Result<T>
Ok(v) == [ok |-> TRUE, val |-> v, err |-> NoErr]
Err(e) == [ok |-> FALSE, val |-> NoVal, err |-> e]

\* a call that has returned nothing (not started, blocked, or panicked)
NoResult == [ok |-> FALSE, val |-> NoVal, err |-> NoErr]

\* Error::UnsupportedPlatform
UnsupportedPlatform == [kind |-> "UnsupportedPlatform", cause |-> "none"]

\* From<PluginInvokeError> for Error (the target of `Into::into`)
ErrorFrom(e) == [kind |-> "BridgeFailure", cause |-> e]

\* the error the setup closure returns when `?` propagates a failed registration
SetupFailure(e) == [kind |-> "SetupFailure", cause |-> e]

\* ------------------------------------------------- native bridge replies
\* JSON values crossing the bridge: a string, or an object given as a set of
\* <<field, value>> pairs.
JStr(s) == [tag |-> "str", s |-> s, fields |-> {}]
JObj(f) == [tag |-> "obj", s |-> "", fields |-> f]

\* wire name the native side uses for a permission state
WireName(p) ==
  CASE p = "Granted" -> "granted"
    [] p = "Denied" -> "denied"
    [] p = "NotDetermined" -> "notDetermined"

\* a reply of the native plugin: resolve(json) or reject(error)
Resolve(j) == [ok |-> TRUE, json |-> j, err |-> "none"]
Reject(e) == [ok |-> FALSE, json |-> JStr(""), err |-> e]
NoReply == [ok |-> FALSE, json |-> JStr(""), err |-> "pending"]

NativeErrors == {"PluginNotRegistered", "InvokeRejected"}

PermissionReplies == {Resolve(JStr(WireName(p))) : p \in PermissionStates}
TokenReplies == {Resolve(JObj({<<"token", t>>})) : t \in Tokens}
\* resolved replies whose payload does not have the shape the operation's
\* result type expects
MismatchedReplies(op) ==
  IF op = "requestPushPermission"
  THEN {Resolve(JObj({<<"token", "abc123">>}))}
  ELSE {Resolve(JObj({<<"status", "abc123">>}))}
ErrorReplies == {Reject(e) : e \in NativeErrors}

\* serde: PermissionState from a JSON value
DeserializePermissionState(j) ==
  IF j.tag # "str" THEN Err("CannotDeserializeResponse")
  ELSE CASE j.s = "granted" -> Ok("Granted")
         [] j.s = "denied" -> Ok("Denied")
         [] j.s = "notDetermined" -> Ok("NotDetermined")
         [] OTHER -> Err("CannotDeserializeResponse")

\* serde: PushTokenResponse { token } from a JSON value
DeserializePushTokenResponse(j) ==
  IF j.tag = "obj" /\ \E f \in j.fields : f[1] = "token"
  THEN Ok([token |-> (CHOOSE f \in j.fields : f[1] = "token")[2]])
  ELSE Err("CannotDeserializeResponse")

\* PluginHandle::run_mobile_plugin::<T>(name, ()) seen from the caller: the
\* reply of the native side, rejected or deserialized to T
run_mobile_plugin(T, reply) ==
  IF ~reply.ok THEN Err(reply.err)
  ELSE IF T = "PermissionState" THEN DeserializePermissionState(reply.json)
  ELSE DeserializePushTokenResponse(reply.json)

\* faulty variant: every bridge error is reported as UnsupportedPlatform
map_err_unsupported(r) == IF r.ok THEN r ELSE Err(UnsupportedPlatform)

\* .map_err(Into::into)
map_err(r) == IF r.ok THEN r ELSE Err(ErrorFrom(r.err))

\* --------------------------------------------------------------- backends
\* desktop::IosPush
desktop_request_push_permission == Err(UnsupportedPlatform)

\* faulty variant: the stub answers with an empty token
desktop_get_push_token_empty == Ok("")

desktop_get_push_token == Err(UnsupportedPlatform)

\* native invocations a desktop backend method performs: none
desktop_invocations(cmd) == << >>

\* faulty variant: any resolved reply counts as a granted permission
mobile_request_push_permission_granted(reply) ==
  IF reply.ok THEN Ok("Granted") ELSE Err(ErrorFrom(reply.err))

\* mobile::IosPush::request_push_permission, given the bridge's reply
mobile_request_push_permission(reply) ==
  map_err(run_mobile_plugin("PermissionState", reply))

\* faulty variant: a failed round trip yields the default (empty) token
mobile_get_push_token_default(reply) ==
  LET result == map_err(run_mobile_plugin("PushTokenResponse", reply))
  IN IF result.ok THEN Ok(result.val.token) ELSE Ok("")

\* mobile::IosPush::get_push_token, given the bridge's reply
mobile_get_push_token(reply) ==
  LET result == map_err(run_mobile_plugin("PushTokenResponse", reply))
  IN IF result.ok THEN Ok(result.val.token) ELSE result

\* faulty variant: get_push_token first asks for the permission
mobile_invocations_chained(cmd) ==
  IF cmd = "request_push_permission"
  THEN << [op |-> "requestPushPermission", args |-> "()"] >>
  ELSE << [op |-> "requestPushPermission", args |-> "()"],
          [op |-> "getPushToken", args |-> "()"] >>

\* the native invocations a mobile backend method performs: operation name
\* and payload of each run_mobile_plugin call, in order
mobile_invocations(cmd) ==
  IF cmd = "request_push_permission"
  THEN << [op |-> "requestPushPermission", args |-> "()"] >>
  ELSE << [op |-> "getPushToken", args |-> "()"] >>

\* commands::request_push_permission: returns what the handle's method returned
commands_request_push_permission(r) == r

\* faulty variant: the command replaces an error by an empty token
commands_get_push_token_swallow(r) == IF r.ok THEN r ELSE Ok("")

\* commands::get_push_token: returns what the handle's method returned
commands_get_push_token(r) == r

\* desktop::init
desktop_init == Ok([id |-> 1, backend |-> "desktop"])

\* faulty variant: a failed registration is ignored
mobile_init_fallback(t, registered) == Ok([id |-> 1, backend |-> t])

\* mobile::init; registered = outcome of register_ios_plugin / register_android_plugin
mobile_init(t, registered) ==
  IF registered THEN Ok([id |-> 1, backend |-> t])
  ELSE Err(SetupFailure("PluginNotRegistered"))

VARIABLES
  target,          \* compile target of the build
  bridgeAvailable, \* whether registering the native plugin will succeed
  boot,            \* "init" | "ready" | "failed": state of the plugin's setup
  setupResult,     \* what the setup closure returned
  managed,         \* the app's managed state of type IosPush: set of handles
  pc,              \* per caller: "idle" | "waiting" | "answered" | "done" | "panicked"
  cmd,             \* per caller: the command of its current call
  got,             \* per caller: the handle ios_push() returned to its current call
  invoked,         \* per caller: native invocations made by its current call
  answer,          \* per caller: the native reply to its current call
  backendResult,   \* per caller: what the handle's method returned
  result,          \* per caller: what the command returned
  overlap,         \* per caller: another call was in flight during its current call
  everGranted,     \* native layer: push permission has been granted at some time
  nativeCalls,     \* number of native bridge invocations made so far
  dispatched       \* number of commands dispatched so far

vars == <<target, bridgeAvailable, boot, setupResult, managed, pc, cmd, got,
          invoked, answer, backendResult, result, overlap, everGranted,
          nativeCalls, dispatched>>

callVars == <<pc, cmd, got, invoked, answer, backendResult, result, overlap,
              nativeCalls, dispatched>>

bootVars == <<target, bridgeAvailable, boot, setupResult, managed>>

Init ==
  /\ target \in Targets
  /\ bridgeAvailable \in (IF IsMobile(target) THEN BOOLEAN ELSE {FALSE})
  /\ boot = "init"
  /\ setupResult = NoResult
  /\ managed = {}
  /\ pc = [c \in Callers |-> "idle"]
  /\ cmd = [c \in Callers |-> "none"]
  /\ got = [c \in Callers |-> NoHandle]
  /\ invoked = [c \in Callers |-> << >>]
  /\ answer = [c \in Callers |-> NoReply]
  /\ backendResult = [c \in Callers |-> NoResult]
  /\ result = [c \in Callers |-> NoResult]
  /\ overlap = [c \in Callers |-> FALSE]
  /\ everGranted \in BOOLEAN
  /\ nativeCalls = 0
  /\ dispatched = 0

\* faulty variant: every lookup builds a new handle
ios_push_fresh ==
  IF managed = {} THEN [panic |-> TRUE, handle |-> NoHandle]
  ELSE [panic |-> FALSE, handle |-> [id |-> dispatched + 2, backend |-> target]]

\* faulty variant: a lookup without a managed handle falls back to a stub handle
ios_push_default ==
  IF managed = {} THEN [panic |-> FALSE, handle |-> [id |-> 1, backend |-> "desktop"]]
  ELSE [panic |-> FALSE, handle |-> CHOOSE h \in managed : TRUE]

\* IosPushExt::ios_push: self.state::<IosPush<R>>().inner()
\* (Manager::state panics when no state of the type is managed)
ios_push ==
  IF managed = {} THEN [panic |-> TRUE, handle |-> NoHandle]
  ELSE [panic |-> FALSE, handle |-> CHOOSE h \in managed : TRUE]

\* the setup closure of init() on a desktop build:
\* desktop::init(app, api)?; app.manage(ios_push); Ok(())
SetupDesktop ==
  /\ boot = "init"
  /\ ~IsMobile(target)
  /\ LET r == desktop_init
     IN IF r.ok
        THEN /\ managed' = (IF managed = {} THEN {r.val} ELSE managed)
             /\ setupResult' = Ok(NoVal)
             /\ boot' = "ready"
        ELSE /\ managed' = managed
             /\ setupResult' = Err(r.err)
             /\ boot' = "failed"
  /\ UNCHANGED <<target, bridgeAvailable, callVars, everGranted>>

\* the setup closure of init() on a mobile build:
\* mobile::init(app, api)?; app.manage(ios_push); Ok(())
SetupMobile ==
  /\ boot = "init"
  /\ IsMobile(target)
  /\ LET r == mobile_init(target, bridgeAvailable)
     IN IF r.ok
        THEN /\ managed' = (IF managed = {} THEN {r.val} ELSE managed)
             /\ setupResult' = Ok(NoVal)
             /\ boot' = "ready"
        ELSE /\ managed' = managed
             /\ setupResult' = Err(r.err)
             /\ boot' = "failed"
  /\ UNCHANGED <<target, bridgeAvailable, callVars, everGranted>>

InFlight(c) == pc[c] \in {"waiting", "answered"}

CanDispatch(c) ==
  /\ pc[c] \in {"idle", "done", "panicked"}
  /\ dispatched < MaxCalls

\* bookkeeping common to every dispatch of command k by caller c
Begin(c, k) ==
  /\ cmd' = [cmd EXCEPT ![c] = k]
  /\ answer' = [answer EXCEPT ![c] = NoReply]
  /\ overlap' = [d \in Callers |->
                   IF d = c THEN \E e \in Callers \ {c} : InFlight(e)
                   ELSE overlap[d] \/ InFlight(d)]
  /\ dispatched' = dispatched + 1

\* a command whose ios_push() lookup finds no managed handle: the lookup
\* panics and the command returns nothing
DispatchUnmanaged(c, k) ==
  /\ CanDispatch(c)
  /\ ios_push.panic
  /\ Begin(c, k)
  /\ pc' = [pc EXCEPT ![c] = "panicked"]
  /\ got' = [got EXCEPT ![c] = NoHandle]
  /\ invoked' = [invoked EXCEPT ![c] = << >>]
  /\ backendResult' = [backendResult EXCEPT ![c] = NoResult]
  /\ result' = [result EXCEPT ![c] = NoResult]
  /\ UNCHANGED <<bootVars, everGranted, nativeCalls>>

\* commands::request_push_permission / get_push_token on the desktop backend
DispatchDesktop(c, k) ==
  /\ CanDispatch(c)
  /\ ~ios_push.panic
  /\ ~IsMobile(ios_push.handle.backend)
  /\ Begin(c, k)
  /\ LET r == IF k = "request_push_permission"
              THEN desktop_request_push_permission
              ELSE desktop_get_push_token
     IN /\ got' = [got EXCEPT ![c] = ios_push.handle]
        /\ invoked' = [invoked EXCEPT ![c] = desktop_invocations(k)]
        /\ nativeCalls' = nativeCalls + Len(desktop_invocations(k))
        /\ backendResult' = [backendResult EXCEPT ![c] = r]
        /\ result' = [result EXCEPT ![c] =
                        IF k = "request_push_permission"
                        THEN commands_request_push_permission(r)
                        ELSE commands_get_push_token(r)]
  /\ pc' = [pc EXCEPT ![c] = "done"]
  /\ UNCHANGED <<bootVars, everGranted>>

\* the same commands on a mobile backend, up to the point where
\* run_mobile_plugin has sent its request and blocks on the reply
DispatchMobile(c, k) ==
  /\ CanDispatch(c)
  /\ ~ios_push.panic
  /\ IsMobile(ios_push.handle.backend)
  /\ Begin(c, k)
  /\ got' = [got EXCEPT ![c] = ios_push.handle]
  /\ invoked' = [invoked EXCEPT ![c] = mobile_invocations(k)]
  /\ nativeCalls' = nativeCalls + Len(mobile_invocations(k))
  /\ backendResult' = [backendResult EXCEPT ![c] = NoResult]
  /\ result' = [result EXCEPT ![c] = NoResult]
  /\ pc' = [pc EXCEPT ![c] = "waiting"]
  /\ UNCHANGED <<bootVars, everGranted>>

\* replies the native plugin can give to an invocation: a token only once
\* permission has been granted
NativeRepliesTo(op) ==
  IF op = "requestPushPermission"
  THEN PermissionReplies \cup MismatchedReplies(op) \cup ErrorReplies
  ELSE (IF everGranted THEN TokenReplies ELSE {})
         \cup MismatchedReplies(op) \cup ErrorReplies

\* the native plugin answers the pending invocation of caller c
NativeRespond(c) ==
  /\ pc[c] = "waiting"
  /\ LET op == invoked[c][Len(invoked[c])].op
     IN \E r \in NativeRepliesTo(op) :
          /\ answer' = [answer EXCEPT ![c] = r]
          /\ everGranted' = (everGranted \/
                 (op = "requestPushPermission" /\ r = Resolve(JStr("granted"))))
  /\ pc' = [pc EXCEPT ![c] = "answered"]
  /\ UNCHANGED <<bootVars, cmd, got, invoked, backendResult, result, overlap,
                 nativeCalls, dispatched>>

\* faulty variant: replies are taken from a slot shared by all calls
BridgeReply_shared(c) == answer[CHOOSE d \in Callers : pc[d] = "answered"]

\* the reply run_mobile_plugin hands back to the call of caller c
BridgeReply(c) == answer[c]

\* run_mobile_plugin returns, the backend method returns and the command
\* returns its result
Return(c) ==
  /\ pc[c] = "answered"
  /\ LET r == IF cmd[c] = "request_push_permission"
              THEN mobile_request_push_permission(BridgeReply(c))
              ELSE mobile_get_push_token(BridgeReply(c))
     IN /\ backendResult' = [backendResult EXCEPT ![c] = r]
        /\ result' = [result EXCEPT ![c] =
                        IF cmd[c] = "request_push_permission"
                        THEN commands_request_push_permission(r)
                        ELSE commands_get_push_token(r)]
  /\ pc' = [pc EXCEPT ![c] = "done"]
  /\ UNCHANGED <<bootVars, cmd, got, invoked, answer, overlap, everGranted,
                 nativeCalls, dispatched>>

Next ==
  \/ SetupDesktop
  \/ SetupMobile
  \/ \E c \in Callers, k \in Commands : DispatchUnmanaged(c, k)
  \/ \E c \in Callers, k \in Commands : DispatchDesktop(c, k)
  \/ \E c \in Callers, k \in Commands : DispatchMobile(c, k)
  \/ \E c \in Callers : NativeRespond(c)
  \/ \E c \in Callers : Return(c)

Spec == Init /\ [][Next]_vars

TypeOK ==
  /\ target \in Targets
  /\ boot \in {"init", "ready", "failed"}
  /\ Cardinality(managed) <= 1
  /\ \A c \in Callers : pc[c] \in {"idle", "waiting", "answered", "done", "panicked"}
  /\ dispatched \in 0..MaxCalls

\* ------------------------------------------------------------ properties
\* the reply has the shape the command's result type expects
WellFormed(k, r) ==
  IF k = "request_push_permission" THEN r \in PermissionReplies
  ELSE r \in TokenReplies

\* the value a well-formed reply carries
PayloadOf(k, r) ==
  IF k = "request_push_permission"
  THEN CHOOSE p \in PermissionStates : WireName(p) = r.json.s
  ELSE CHOOSE t \in Tokens : <<"token", t>> \in r.json.fields

\* the bridge error behind a reply that is not well-formed
CauseOf(r) == IF r.ok THEN "CannotDeserializeResponse" ELSE r.err

MobileDone(c) == pc[c] = "done" /\ IsMobile(got[c].backend)

DesktopDone(c) == pc[c] = "done" /\ got[c].backend = "desktop"

\* C1: on the desktop backend every completed request_push_permission and
\* get_push_token returned exactly the UnsupportedPlatform error, no call
\* ever waits for the native bridge and the number of native invocations
\* stays zero.
C1_DesktopUnsupported ==
  /\ target = "desktop" => nativeCalls = 0
  /\ \A c \in Callers :
       got[c].backend = "desktop" =>
         /\ invoked[c] = << >>
         /\ ~InFlight(c)
         /\ pc[c] = "done" => result[c] = Err(UnsupportedPlatform)

C1_Witness ==
  /\ target = "desktop"
  /\ dispatched = MaxCalls
  /\ \E c, d \in Callers :
       /\ DesktopDone(c) /\ cmd[c] = "request_push_permission"
       /\ DesktopDone(d) /\ cmd[d] = "get_push_token"

\* C2: on a mobile backend a call whose bridge invocation failed (rejected
\* by the native side, or resolved with a payload that does not deserialize)
\* returns the BridgeFailure error wrapping that bridge error: not
\* UnsupportedPlatform, not a success and not a default value.
C2_BridgeFailureSurfaced ==
  \A c \in Callers :
    (MobileDone(c) /\ ~WellFormed(cmd[c], answer[c])) =>
      /\ ~result[c].ok
      /\ result[c].val = NoVal
      /\ result[c].err = [kind |-> "BridgeFailure", cause |-> CauseOf(answer[c])]

C2_Witness ==
  \E c, d \in Callers :
    /\ MobileDone(c) /\ ~answer[c].ok /\ cmd[c] = "get_push_token"
    /\ MobileDone(d) /\ answer[d].ok /\ ~WellFormed(cmd[d], answer[d])
    /\ cmd[d] = "request_push_permission"

\* C3: on a mobile backend whose bridge answered with a well-formed reply,
\* request_push_permission returns exactly the permission state the bridge
\* produced and get_push_token exactly the string of the reply's token field.
C3_SuccessUnmodified ==
  \A c \in Callers :
    (MobileDone(c) /\ WellFormed(cmd[c], answer[c])) =>
      result[c] = Ok(PayloadOf(cmd[c], answer[c]))

C3_Witness ==
  \E c, d \in Callers :
    /\ MobileDone(c) /\ cmd[c] = "request_push_permission"
    /\ answer[c] = Resolve(JStr("denied")) /\ result[c].val = "Denied"
    /\ MobileDone(d) /\ cmd[d] = "get_push_token"
    /\ answer[d] = Resolve(JObj({<<"token", "abc123">>}))
    /\ result[d].val = "abc123"

\* C4: an error returned by the backend is what the command returns: same
\* error, the call made at most one native invocation, and no success value
\* takes its place; a get_push_token served by the stub backend answers with
\* an error of kind UnsupportedPlatform.
C4_ErrorsPropagateUnchanged ==
  \A c \in Callers :
    /\ (pc[c] = "done" /\ ~backendResult[c].ok) =>
         /\ result[c] = backendResult[c]
         /\ Len(invoked[c]) <= 1
    /\ (DesktopDone(c) /\ cmd[c] = "get_push_token") =>
         /\ ~result[c].ok
         /\ result[c].err.kind = "UnsupportedPlatform"

C4_Witness ==
  \E c \in Callers :
    /\ boot = "ready"
    /\ DesktopDone(c) /\ cmd[c] = "get_push_token"
    /\ ~backendResult[c].ok
    /\ result[c].err.kind = "UnsupportedPlatform"

\* C5: once a handle is registered it is never replaced, recreated or
\* removed, and every lookup returns that registered handle.
C5_HandleStable ==
  [][ managed # {} =>
        /\ managed' = managed
        /\ \A c \in Callers : got'[c] \in managed \cup {NoHandle} ]_vars

C5_Witness ==
  /\ boot = "ready"
  /\ dispatched = MaxCalls
  /\ \E c, d \in Callers :
       /\ c # d
       /\ got[c] # NoHandle
       /\ got[d] = got[c]
       /\ managed = {got[c]}

\* the outcome that caller c's own native round trip determines
OwnOutcome(c) ==
  IF WellFormed(cmd[c], answer[c])
  THEN Ok(PayloadOf(cmd[c], answer[c]))
  ELSE Err([kind |-> "BridgeFailure", cause |-> CauseOf(answer[c])])

\* C6: with calls in flight concurrently, a returning call gets the outcome
\* of its own native round trip, and a step of one caller changes neither
\* the pending invocation or reply of another call in flight nor a result
\* already delivered to another caller.
C6_NoInterference ==
  [][ \A c \in Callers :
        /\ (pc[c] = "answered" /\ pc'[c] = "done") => result'[c] = OwnOutcome(c)
        /\ (InFlight(c) /\ pc'[c] = pc[c]) =>
             /\ answer'[c] = answer[c]
             /\ invoked'[c] = invoked[c]
             /\ cmd'[c] = cmd[c]
        /\ (pc[c] = "done" /\ dispatched' = dispatched) => result'[c] = result[c]
    ]_vars

C6_Witness ==
  \E c, d \in Callers :
    /\ MobileDone(c) /\ overlap[c] /\ cmd[c] = "get_push_token"
    /\ MobileDone(d) /\ overlap[d] /\ cmd[d] = "request_push_permission"
    /\ result[c].ok /\ ~result[d].ok
    /\ answer[c] # answer[d]

\* C7: on a mobile target whose native plugin registration fails, setup
\* returns an error, no handle is ever registered and no command is answered
\* by a backend; on a non-mobile target setup succeeds and registers the
\* stub backend.
C7_SetupFailureRegistersNothing ==
  /\ (IsMobile(target) /\ ~bridgeAvailable) =>
       /\ managed = {}
       /\ nativeCalls = 0
       /\ boot # "ready"
       /\ boot = "failed" => ~setupResult.ok
       /\ \A c \in Callers :
            /\ pc[c] \in {"idle", "panicked"}
            /\ got[c] = NoHandle
            /\ result[c] = NoResult
  /\ (~IsMobile(target) /\ boot # "init") =>
       /\ boot = "ready"
       /\ setupResult.ok
       /\ managed = {[id |-> 1, backend |-> "desktop"]}

C7_Witness ==
  /\ IsMobile(target)
  /\ boot = "failed"
  /\ ~setupResult.ok
  /\ dispatched = MaxCalls
  /\ \E c \in Callers : pc[c] = "panicked"

C9_RegistrationPrecedesService ==
  /\ nativeCalls > 0 => boot = "ready"
  /\ \A c \in Callers :
       /\ pc[c] \in {"waiting", "answered", "done"} =>
            (boot = "ready" /\ got[c] \in managed)
       /\ (boot # "ready" /\ pc[c] # "idle") =>
            /\ pc[c] = "panicked"
            /\ got[c] = NoHandle
            /\ invoked[c] = << >>
            /\ backendResult[c] = NoResult
            /\ result[c] = NoResult

C9_Witness ==
  /\ boot = "ready"
  /\ \E c, d \in Callers :
       /\ pc[c] = "panicked" /\ result[c] = NoResult
       /\ pc[d] = "done" /\ got[d] \in managed

\* native operation name of a command
OpNameOf(k) ==
  IF k = "request_push_permission" THEN "requestPushPermission" ELSE "getPushToken"

\* C10: on a mobile backend every dispatched command makes exactly one
\* native invocation, without arguments and under the operation name of the
\* command; no other step (a reply, a return, a failure) makes one.
C10_OneInvocationPerCall ==
  /\ [](\A c \in Callers :
          (IsMobile(got[c].backend) /\ pc[c] # "idle") =>
            invoked[c] = << [op |-> OpNameOf(cmd[c]), args |-> "()"] >>)
  /\ [][ nativeCalls' - nativeCalls =
           (IF dispatched' # dispatched /\ managed # {} /\ IsMobile(target)
            THEN 1 ELSE 0) ]_vars

C10_Witness ==
  /\ nativeCalls = MaxCalls
  /\ \E c, d \in Callers :
       /\ MobileDone(c) /\ cmd[c] = "get_push_token" /\ ~result[c].ok
       /\ MobileDone(d) /\ cmd[d] = "get_push_token" /\ result[d].ok
       /\ c # d
====
